---- MODULE Spec2Model ----
(***************************************************************************)
(* Model of the agent registry (AgentManager), the tool wrappers           *)
(* (ToolManager), the chat turn (AgentManager.process_message) and the     *)
(* Flask endpoints that call them.                                         *)
(*                                                                         *)
(* Representation of Python values:                                        *)
(*  - a message and an identifier are tuples of one-character strings, so   *)
(*    that `in` (substring) and str(int) are computed, not assumed;         *)
(*  - every other text is a tuple of tokens; a text that starts with the    *)
(*    characters "Error" has "Error" as its first token, and the empty text *)
(*    is << >>;                                                             *)
(*  - the dict self.agents is a tuple of [k, v] entries in insertion order. *)
(***************************************************************************)
EXTENDS Integers, Sequences, FiniteSets, TLC

VARIABLES agents, created, last, turn, calls, thr

vars == <<agents, created, last, turn, calls, thr>>

(* ------------------------------ bounds -------------------------------- *)
MaxAgents == 2
MaxIds == 10
MaxTools == 2
NThreads == 2

(* ------------------------- generic helpers ---------------------------- *)
Range(s) == {s[i] : i \in DOMAIN s}

RECURSIVE Join(_, _)
Join(parts, sep) ==
  IF parts = << >> THEN << >>
  ELSE IF Len(parts) = 1 THEN <<parts[1]>>
  ELSE <<parts[1], sep>> \o Join(Tail(parts), sep)

RECURSIVE JoinTexts(_, _)
JoinTexts(texts, sep) ==
  IF texts = << >> THEN << >>
  ELSE IF Len(texts) = 1 THEN texts[1]
  ELSE texts[1] \o <<sep>> \o JoinTexts(Tail(texts), sep)

Contains(s, sub) ==
  \E k \in 0..(Len(s) - Len(sub)) : SubSeq(s, k + 1, k + Len(sub)) = sub

StartsWithError(text) == text # << >> /\ text[1] = "Error"

Truthy(text) == text # << >>

Digits == <<"0", "1", "2", "3", "4", "5", "6", "7", "8", "9">>

RECURSIVE Str(_)
Str(n) ==
  IF n < 10 THEN <<Digits[n + 1]>>
  ELSE Str(n \div 10) \o <<Digits[(n % 10) + 1]>>

RECURSIVE SeqsUpTo(_, _)
SeqsUpTo(S, n) ==
  IF n = 0 THEN {<< >>}
  ELSE LET shorter == SeqsUpTo(S, n - 1)
       IN  shorter \cup {Append(s, x) : s \in shorter, x \in S}

(* ----------------------------- the dict ------------------------------- *)
DictKeys(d) == {d[i].k : i \in DOMAIN d}

DictLen(d) == Len(d)

DictGet(d, key) ==
  IF key \in DictKeys(d)
  THEN (CHOOSE i \in DOMAIN d : d[i].k = key)
  ELSE 0

DictHas(d, key) == key \in DictKeys(d)

DictValue(d, key) == d[DictGet(d, key)].v

DictSet(d, key, value) ==
  IF key \in DictKeys(d)
  THEN [i \in DOMAIN d |-> IF d[i].k = key THEN [k |-> key, v |-> value] ELSE d[i]]
  ELSE Append(d, [k |-> key, v |-> value])

DictValues(d) == [i \in DOMAIN d |-> d[i].v]

(* --------------------------- persona data ----------------------------- *)
RequiredFields == <<"name", "role", "goal", "backstory", "tools", "task">>

TaskKeys == {"description", "expected_output"}

Tools == {"wikipedia", "python_repl", "duckduckgo", "google_search", "calculator"}

Capitalize(tool) ==
  CASE tool = "wikipedia" -> "Wikipedia"
    [] tool = "python_repl" -> "Python_repl"
    [] tool = "duckduckgo" -> "Duckduckgo"
    [] tool = "google_search" -> "Google_search"
    [] tool = "calculator" -> "Calculator"
    [] OTHER -> tool

TaskValues ==
  {[isdict |-> TRUE, keys |-> ks, description |-> "d", expected_output |-> "e"] :
      ks \in SUBSET TaskKeys}
  \cup {[isdict |-> FALSE, keys |-> {}, description |-> "d", expected_output |-> "e"]}

FullTask == [isdict |-> TRUE, keys |-> TaskKeys, description |-> "d", expected_output |-> "e"]

AgentData(keys, name, tools, task) ==
  [keys |-> keys, name |-> name, role |-> "r", goal |-> "g", backstory |-> "b",
   tools |-> tools, task |-> task]

ValidData(names, toolLists) ==
  {AgentData(Range(RequiredFields), n, tl, FullTask) : n \in names, tl \in toolLists}

\* every persona specification that lacks a required field: each set of
\* top-level keys, with each shape of the task when the task is present
InvalidData ==
  {d \in {AgentData(ks, "n1", << >>, t) :
             ks \in SUBSET Range(RequiredFields), t \in TaskValues} :
      /\ "task" \notin d.keys => d.task = FullTask
      /\ ~(d.keys = Range(RequiredFields) /\ d.task = FullTask)}

Task(task_data) ==
  [description |-> task_data.description, expected_output |-> task_data.expected_output]

Agent(agent_id, agent_data) ==
  [id |-> agent_id, name |-> agent_data.name, role |-> agent_data.role,
   goal |-> agent_data.goal, backstory |-> agent_data.backstory,
   task |-> Task(agent_data.task), tools |-> agent_data.tools]

to_dict(a) ==
  [id |-> a.id, name |-> a.name, role |-> a.role, goal |-> a.goal,
   backstory |-> a.backstory,
   task |-> [description |-> a.task.description,
             expected_output |-> a.task.expected_output],
   tools |-> a.tools]

None == [none |-> TRUE]

(* ------------------------ AgentManager.create_agent ------------------- *)
\* stops at the first missing field
missing_fields_first(agent_data) ==
  LET all == SelectSeq(RequiredFields, LAMBDA f : f \notin agent_data.keys)
  IN  IF all = << >> THEN << >> ELSE <<all[1]>>

missing_fields(agent_data) ==
  SelectSeq(RequiredFields, LAMBDA f : f \notin agent_data.keys)

MissingMessage(agent_data) ==
  <<"Missing required fields: ">> \o Join(missing_fields(agent_data), ", ")

InvalidTaskMessage == <<"Invalid task data format">>

TaskInvalid(agent_data) ==
  LET task_data == agent_data.task
  IN  \/ ~task_data.isdict
      \/ "description" \notin task_data.keys
      \/ "expected_output" \notin task_data.keys

\* "none" when the data passes validation, else the ValueError's message.
Validate(agent_data) ==
  IF missing_fields(agent_data) # << >> THEN MissingMessage(agent_data)
  ELSE IF TaskInvalid(agent_data) THEN InvalidTaskMessage
  ELSE <<"none">>

IsValid(agent_data) == Validate(agent_data) = <<"none">>

\* the identifier taken from the size alone
NewAgentId_size(ags) == Str(DictLen(ags))

NewAgentId(ags) == Str(DictLen(ags) + 1)

\* stores the persona before the task is validated
create_agent_storefirst(ags, agent_data) ==
  IF missing_fields(agent_data) # << >>
  THEN [exc |-> "ValueError", msg |-> Validate(agent_data), agents |-> ags, ret |-> None]
  ELSE LET agent_id == NewAgentId(ags)
           agent == Agent(agent_id, agent_data)
       IN  IF TaskInvalid(agent_data)
           THEN [exc |-> "ValueError", msg |-> Validate(agent_data),
                 agents |-> DictSet(ags, agent_id, agent), ret |-> None]
           ELSE [exc |-> "none", msg |-> << >>,
                 agents |-> DictSet(ags, agent_id, agent), ret |-> agent]

create_agent(ags, agent_data) ==
  IF ~IsValid(agent_data)
  THEN [exc |-> "ValueError", msg |-> Validate(agent_data), agents |-> ags, ret |-> None]
  ELSE LET agent_id == NewAgentId(ags)
           agent == Agent(agent_id, agent_data)
       IN  [exc |-> "none", msg |-> << >>,
            agents |-> DictSet(ags, agent_id, agent), ret |-> agent]

\* falls back to the first persona
get_agent_default(ags, agent_id) ==
  IF DictHas(ags, agent_id) THEN DictValue(ags, agent_id)
  ELSE IF ags # << >> THEN ags[1].v ELSE None

get_agent(ags, agent_id) ==
  IF DictHas(ags, agent_id) THEN DictValue(ags, agent_id) ELSE None

get_all_agents(ags) == DictValues(ags)

(* ------------------------------ messages ------------------------------ *)
MsgHi == <<"h", "i">>
MsgAssign == <<"x", "=", "1">>
MsgResult == <<"r", "e", "s", "u", "l", "t", "=", "2">>
MsgEmptyResult == <<"r", "e", "s", "u", "l", "t", "=", "'", "'">>
MsgDef == <<"d", "e", "f">>
MsgPrint == <<"p", "r", "i", "n", "t">>
MsgExit == <<"x", "=", "e", "x", "i", "t", "(", ")">>
MsgNear == <<"d", "e", " ", "f">>

Messages == {MsgHi, MsgNear, MsgAssign, MsgResult, MsgEmptyResult, MsgDef, MsgPrint, MsgExit}

\* the gate without its '=' test
HasTrigger_keywords(message) ==
  \/ Contains(message, <<"p", "r", "i", "n", "t">>)
  \/ Contains(message, <<"d", "e", "f">>)

\* line 159: 'print' in message or 'def' in message or '=' in message
HasTrigger(message) ==
  \/ Contains(message, <<"p", "r", "i", "n", "t">>)
  \/ Contains(message, <<"d", "e", "f">>)
  \/ Contains(message, <<"=">>)

(* ------------------------ external providers -------------------------- *)
\* What a call to a provider can come back with.  kind "ok" carries the
\* returned value, every other kind is the class of the exception raised
\* and msg is its str().
SummaryTexts == {<<"Paris is the capital of France.">>, << >>}

AltSummary == <<"Paris, Texas is a city.">>

Ok(value) == [kind |-> "ok", value |-> value, options |-> << >>, msg |-> << >>]

Raise(kind, options, msg) == [kind |-> kind, value |-> << >>, options |-> options, msg |-> msg]

NoCall == [kind |-> "nocall", value |-> << >>, options |-> << >>, msg |-> << >>]

WikiFailures ==
  {Raise("DisambiguationError", <<"Paris (disambiguation)">>, <<"may refer to">>),
   Raise("PageError", << >>, <<"Page id does not match any pages">>),
   Raise("Exception", << >>, <<"Connection timed out">>)}

\* first: the outcome of wikipedia.summary(query, sentences=3);
\* retry: the outcome of wikipedia.summary(e.options[0], sentences=2).
WikiOracles ==
  {[first |-> Ok(t), retry |-> NoCall] : t \in SummaryTexts}
  \cup {[first |-> f, retry |-> NoCall] :
          f \in {x \in WikiFailures : x.kind # "DisambiguationError"}}
  \cup {[first |-> Raise("DisambiguationError", << >>, <<"may refer to">>), retry |-> NoCall]}
  \cup {[first |-> Raise("DisambiguationError", <<"Paris, Texas", "Paris, Ontario">>,
                         <<"may refer to">>),
         retry |-> r] : r \in {Ok(AltSummary)} \cup WikiFailures}

\* the list ddgs.text(query, max_results=2) returns (the bodies of its
\* results; "nobody" is a result without a 'body' key), or the exception.
SearchOracles ==
  {Ok(<< >>),
   Ok(<< <<"Paris travel guide.">> >>),
   Ok(<< <<"Paris travel guide.">>, <<"Hotels in Paris.">> >>),
   Ok(<< <<"Error", " 404: page moved.">> >>),
   Ok(<< << >> >>),
   Ok(<< <<"nobody">> >>),
   Raise("Exception", << >>, <<"Ratelimit">>)}

\* the outcome of openai.ChatCompletion.create(...): a response with its
\* choices' contents, or the exception.
CompletionOracles ==
  {Ok(<< <<"Bonjour.">> >>),
   Ok(<< >>),
   Raise("Exception", << >>, <<"Rate limit reached">>)}

(* ----------------------------- ToolManager ---------------------------- *)
MultipleMatches == <<"Multiple matches found. Please be more specific.">>

NoPageFound == <<"No Wikipedia page found for this query.">>

NoResultsFound == <<"No results found.">>

CodeExecuted == <<"Code executed successfully">>

Call(fn, arg, out) == [fn |-> fn, arg |-> arg, out |-> out]

\* Both operators return [exc, text, calls]: exc is "none" or the class of
\* the exception that leaves the method, text the returned string, calls the
\* provider calls made, in order.
Returned(text, cs) == [exc |-> "none", text |-> text, calls |-> cs]

Escaped(exc, cs) == [exc |-> exc, text |-> << >>, calls |-> cs]

\* the retry's failure reported with its cause
WikiRetry_raw(e, w) ==
  IF e.options = << >>
  THEN Returned(<<"Error", " searching Wikipedia: ", "list index out of range">>, << >>)
  ELSE LET c2 == Call("wikipedia.summary", [query |-> <<e.options[1]>>, sentences |-> 2], w.retry)
       IN  IF w.retry.kind = "ok"
           THEN Returned(w.retry.value, <<c2>>)
           ELSE Returned(<<"Error", " searching Wikipedia: ">> \o w.retry.msg, <<c2>>)

WikiRetry(e, w) ==
  IF e.options = << >>
  THEN Returned(MultipleMatches, << >>)
  ELSE LET c2 == Call("wikipedia.summary", [query |-> <<e.options[1]>>, sentences |-> 2], w.retry)
       IN  IF w.retry.kind = "ok"
           THEN Returned(w.retry.value, <<c2>>)
           ELSE Returned(MultipleMatches, <<c2>>)

wikipedia_search(query, w) ==
  LET c1 == Call("wikipedia.summary", [query |-> query, sentences |-> 3], w.first)
  IN  CASE w.first.kind = "ok" -> Returned(w.first.value, <<c1>>)
        [] w.first.kind = "DisambiguationError" ->
             LET r == WikiRetry(w.first, w)
             IN  [r EXCEPT !.calls = <<c1>> \o r.calls]
        [] w.first.kind = "PageError" -> Returned(NoPageFound, <<c1>>)
        [] OTHER -> Returned(<<"Error", " searching Wikipedia: ">> \o w.first.msg, <<c1>>)

\* exec(code, {}, {}) of each message, as CPython runs it.
Exec(code) ==
  CASE code = MsgAssign -> [exc |-> "none", msg |-> << >>, locals |-> [has_result |-> FALSE, result |-> << >>]]
    [] code = MsgPrint -> [exc |-> "none", msg |-> << >>, locals |-> [has_result |-> FALSE, result |-> << >>]]
    [] code = MsgResult -> [exc |-> "none", msg |-> << >>, locals |-> [has_result |-> TRUE, result |-> <<"2">>]]
    [] code = MsgEmptyResult -> [exc |-> "none", msg |-> << >>, locals |-> [has_result |-> TRUE, result |-> << >>]]
    [] code = MsgDef -> [exc |-> "Exception", msg |-> <<"invalid syntax">>, locals |-> [has_result |-> FALSE, result |-> << >>]]
    [] code = MsgExit -> [exc |-> "SystemExit", msg |-> << >>, locals |-> [has_result |-> FALSE, result |-> << >>]]
    [] OTHER -> [exc |-> "Exception", msg |-> <<"name is not defined">>, locals |-> [has_result |-> FALSE, result |-> << >>]]

python_repl(code) ==
  LET x == Exec(code)
      c == Call("exec", code, IF x.exc = "none" THEN Ok(x.locals.result) ELSE Raise(x.exc, << >>, x.msg))
  IN  CASE x.exc = "none" ->
             Returned(IF x.locals.has_result THEN x.locals.result ELSE CodeExecuted, <<c>>)
        [] x.exc = "Exception" ->
             Returned(<<"Error", " executing Python code: ">> \o x.msg, <<c>>)
        [] OTHER -> Escaped(x.exc, <<c>>)

duckduckgo_search(query, d) ==
  LET c == Call("DDGS.text", [query |-> query, max_results |-> 2], d)
  IN  IF d.kind # "ok"
      THEN Returned(<<"Error", " performing DuckDuckGo search: ">> \o d.msg, <<c>>)
      ELSE IF d.value = << >> THEN Returned(NoResultsFound, <<c>>)
      ELSE IF \E i \in DOMAIN d.value : d.value[i] = <<"nobody">>
      THEN Returned(<<"Error", " performing DuckDuckGo search: ", "'body'">>, <<c>>)
      ELSE Returned(JoinTexts(d.value, "\n"), <<c>>)

google_search(query, d) == duckduckgo_search(query, d)

(* -------------------- AgentManager.process_message ------------------- *)
Idle == [pc |-> "idle"]

system_message(agent) ==
  [name |-> agent.name, role |-> agent.role, goal |-> agent.goal,
   backstory |-> agent.backstory, task |-> agent.task.description,
   expected_output |-> agent.task.expected_output,
   tools |-> Join(agent.tools, ", ")]

user_message(message, tool_results) ==
  [message |-> message, tool_block |-> tool_results]

\* lines 168-169
AppendResult(tool_results, tool, result) ==
  IF Truthy(result) /\ ~StartsWithError(result)
  THEN Append(tool_results, <<Capitalize(tool), ": ">> \o result)
  ELSE tool_results

\* the provider calls of one loop iteration, tagged with the position of the
\* declared tool they were made for
Tagged(cs, i) == [j \in DOMAIN cs |-> [fn |-> cs[j].fn, arg |-> cs[j].arg, out |-> cs[j].out, tool |-> i]]

\* lines 181-195: the value returned, or the exception raised
\* a provider failure turned into a reply
AiResponse_swallow(c) ==
  IF c.kind = "ok" /\ c.value # << >>
  THEN [exc |-> "none", text |-> c.value[1]]
  ELSE [exc |-> "none", text |-> <<"Error", " getting AI response: ">> \o c.msg]

AiResponse(c) ==
  IF c.kind = "ok" /\ c.value # << >>
  THEN [exc |-> "none", text |-> c.value[1]]
  ELSE [exc |-> "Exception",
        text |-> <<"Error", " getting AI response: ">>
                 \o (IF c.kind = "ok" THEN <<"list index out of range">> ELSE c.msg)]

(* ------------------------------ responses ----------------------------- *)
\* exc: the exception that left the manager's method ("none" when it
\* returned, "notcalled" when the endpoint answered without calling it);
\* status 0: no response was sent.
Response(op, req, status, body, exc) ==
  [op |-> op, req |-> req, status |-> status, body |-> body, exc |-> exc]

Error(msg) == [error |-> msg]

ChatReq(agent_id, message) == [agent_id |-> agent_id, message |-> message]

AllIdle == [t \in 1..NThreads |-> Idle]

Init ==
  /\ agents = << >>
  /\ created = << >>
  /\ last = Response("none", << >>, 0, << >>, "notcalled")
  /\ turn = Idle
  /\ calls = << >>
  /\ thr = AllIdle

Quiet == turn.pc = "idle" /\ thr = AllIdle

(* --------------------------- app.py endpoints ------------------------- *)
CreateResponse(op, agent_data, r) ==
  IF r.exc = "ValueError"
  THEN Response(op, agent_data, 400, Error(r.msg), "ValueError")
  ELSE Response(op, agent_data, 201, to_dict(r.ret), "none")

\* POST /agents
CreateAgent(agent_data, cap) ==
  /\ Quiet
  /\ IsValid(agent_data) => DictLen(agents) < cap
  /\ IF agent_data.keys = {}
     THEN /\ last' = Response("create", agent_data, 400, Error(<<"No data provided">>), "notcalled")
          /\ UNCHANGED <<agents, created>>
     ELSE LET r == create_agent(agents, agent_data)
          IN  /\ agents' = r.agents
              /\ created' = IF r.exc = "none" THEN Append(created, r.ret.id) ELSE created
              /\ last' = CreateResponse("create", agent_data, r)
  /\ calls' = << >>
  /\ UNCHANGED <<turn, thr>>

\* POST /agents/import, once the uploaded file has been parsed
ImportAgent(agent_data, cap) ==
  /\ Quiet
  /\ IsValid(agent_data) => DictLen(agents) < cap
  /\ LET r == create_agent(agents, agent_data)
     IN  /\ agents' = r.agents
         /\ created' = IF r.exc = "none" THEN Append(created, r.ret.id) ELSE created
         /\ last' = CreateResponse("import", agent_data, r)
  /\ calls' = << >>
  /\ UNCHANGED <<turn, thr>>

\* GET /agents
GetAgents ==
  /\ Quiet
  /\ last' = Response("list", << >>, 200,
                      [i \in DOMAIN get_all_agents(agents) |-> to_dict(get_all_agents(agents)[i])],
                      "none")
  /\ calls' = << >>
  /\ UNCHANGED <<agents, created, turn, thr>>

Lookup(op, agent_id) ==
  LET agent == get_agent(agents, agent_id)
  IN  IF agent # None
      THEN Response(op, agent_id, 200, to_dict(agent), "none")
      ELSE Response(op, agent_id, 404, Error(<<"Agent not found">>), "none")

\* POST /agents/get
GetAgent(agent_id) ==
  /\ Quiet
  /\ last' = Lookup("get", agent_id)
  /\ calls' = << >>
  /\ UNCHANGED <<agents, created, turn, thr>>

\* GET /agents/export/<agent_id>
ExportAgent(agent_id) ==
  /\ Quiet
  /\ last' = Lookup("export", agent_id)
  /\ calls' = << >>
  /\ UNCHANGED <<agents, created, turn, thr>>

\* POST /agents/chat up to the first tool: the request checks, the lookup
\* of the persona and the system message.
ChatBegin(agent_id, message) ==
  /\ Quiet
  /\ calls' = << >>
  /\ LET req == ChatReq(agent_id, message)
         agent == get_agent(agents, agent_id)
     IN  IF agent_id = << >>
         THEN /\ last' = Response("chat", req, 400, Error(<<"agent_id is required">>), "notcalled")
              /\ turn' = turn
         ELSE IF message = << >>
         THEN /\ last' = Response("chat", req, 400, Error(<<"message is required">>), "notcalled")
              /\ turn' = turn
         ELSE IF agent = None
         THEN /\ last' = Response("chat", req, 404, Error(<<"Agent not found">>), "ValueError")
              /\ turn' = turn
         ELSE /\ last' = Response("pending", req, 0, << >>, "notcalled")
              /\ turn' = [pc |-> "tools", agent |-> agent, message |-> message,
                          system_message |-> system_message(agent),
                          i |-> 1, tool_results |-> << >>]
  /\ UNCHANGED <<agents, created, thr>>

InLoop == turn.pc = "tools" /\ turn.i <= Len(turn.agent.tools)

CurrentTool == turn.agent.tools[turn.i]

\* the provider calls a tool method made, then the method's own outcome
Logged(method, r) ==
  r.calls \o <<Call(method, turn.message,
                    IF r.exc = "none" THEN Ok(r.text) ELSE Raise(r.exc, << >>, << >>))>>

\* one iteration of the loop of lines 153-171, given what the tool did
Iterate(method, r) ==
  IF r.exc = "none"
  THEN /\ turn' = [turn EXCEPT !.i = @ + 1,
                               !.tool_results = AppendResult(@, CurrentTool, r.text)]
       /\ calls' = calls \o Tagged(Logged(method, r), turn.i)
       /\ last' = last
  ELSE /\ turn' = Idle
       /\ calls' = calls \o Tagged(Logged(method, r), turn.i)
       /\ last' = Response("chat", last.req, 0, << >>, r.exc)

ToolWikipedia(w) ==
  /\ InLoop
  /\ CurrentTool = "wikipedia"
  /\ Iterate("wikipedia_search", wikipedia_search(turn.message, w))
  /\ UNCHANGED <<agents, created, thr>>

ToolPythonRepl ==
  /\ InLoop
  /\ CurrentTool = "python_repl"
  /\ HasTrigger(turn.message)
  /\ Iterate("python_repl", python_repl(turn.message))
  /\ UNCHANGED <<agents, created, thr>>

ToolSearch(d) ==
  /\ InLoop
  /\ CurrentTool \in {"duckduckgo", "google_search"}
  /\ Iterate("duckduckgo_search", duckduckgo_search(turn.message, d))
  /\ UNCHANGED <<agents, created, thr>>

\* the two `continue` branches: python_repl without a trigger, unknown tool
ToolSkip ==
  /\ InLoop
  /\ \/ CurrentTool = "python_repl" /\ ~HasTrigger(turn.message)
     \/ CurrentTool \notin {"wikipedia", "python_repl", "duckduckgo", "google_search"}
  /\ turn' = [turn EXCEPT !.i = @ + 1]
  /\ UNCHANGED <<agents, created, last, calls, thr>>

\* lines 173-195 and the endpoint's answer
Complete(c) ==
  /\ turn.pc = "tools"
  /\ turn.i > Len(turn.agent.tools)
  /\ LET r == AiResponse(c)
         call == Call("openai.ChatCompletion.create",
                      [system |-> turn.system_message,
                       user |-> user_message(turn.message, turn.tool_results)], c)
     IN  /\ calls' = calls \o Tagged(<<call>>, 0)
         /\ last' = IF r.exc = "none"
                    THEN Response("chat", last.req, 200, [response |-> r.text], "none")
                    ELSE Response("chat", last.req, 500,
                                  Error(<<"Error", " processing message: ">> \o r.text),
                                  "Exception")
  /\ turn' = Idle
  /\ UNCHANGED <<agents, created, thr>>

ChatSteps ==
  \/ \E w \in WikiOracles : ToolWikipedia(w)
  \/ ToolPythonRepl
  \/ \E d \in SearchOracles : ToolSearch(d)
  \/ ToolSkip
  \/ \E c \in CompletionOracles : Complete(c)

(* ------------------- create_agent, one thread each -------------------- *)
\* lines 95-107: validation and the identifier, computed from the size of
\* the dict as this thread sees it
BeginCreate(t, agent_data, cap) ==
  /\ turn.pc = "idle"
  /\ thr[t].pc = "idle"
  /\ IsValid(agent_data)
  /\ DictLen(agents) < cap
  /\ thr' = [thr EXCEPT ![t] = [pc |-> "store", agent_data |-> agent_data,
                                 agent_id |-> NewAgentId(agents)]]
  /\ UNCHANGED <<agents, created, last, turn, calls>>

\* lines 110-127 and the endpoint's answer
StoreCreate(t) ==
  /\ thr[t].pc = "store"
  /\ LET agent == Agent(thr[t].agent_id, thr[t].agent_data)
     IN  /\ agents' = DictSet(agents, thr[t].agent_id, agent)
         /\ created' = Append(created, agent.id)
         /\ last' = Response("create", thr[t].agent_data, 201, to_dict(agent), "none")
  /\ thr' = [thr EXCEPT ![t] = Idle]
  /\ calls' = << >>
  /\ UNCHANGED turn

(* --------------------------- specifications --------------------------- *)
IdInputs(n) == {<< >>, <<"0", "1">>} \cup {Str(k) : k \in 0..(n + 1)}

PersonaA == AgentData(Range(RequiredFields), "n1", <<"wikipedia", "python_repl">>, FullTask)

PersonaB == AgentData(Range(RequiredFields), "n2", <<"google_search", "calculator">>, FullTask)

\* the registry and every endpoint, one request at a time
Next ==
  \/ \E d \in {PersonaA, PersonaB} \cup InvalidData : CreateAgent(d, MaxAgents)
  \/ \E d \in {PersonaA, PersonaB} \cup InvalidData : ImportAgent(d, MaxAgents)
  \/ GetAgents
  \/ \E id \in IdInputs(MaxAgents) : GetAgent(id)
  \/ \E id \in IdInputs(MaxAgents) : ExportAgent(id)
  \/ \E id \in IdInputs(MaxAgents), m \in {<< >>, MsgHi, MsgAssign} : ChatBegin(id, m)
  \/ ChatSteps

Spec == Init /\ [][Next]_vars

\* one persona with any declared tool list, then chat turns with it
NextTurn ==
  \/ \E d \in ValidData({"n1"}, SeqsUpTo(Tools, MaxTools)) : agents = << >> /\ CreateAgent(d, 1)
  \/ \E id \in IdInputs(1), m \in Messages \cup {<< >>} : ChatBegin(id, m)
  \/ ChatSteps

SpecTurn == Init /\ [][NextTurn]_vars

\* many creates, interleaved with the other operations
PersonaIds == AgentData(Range(RequiredFields), "n1",
                        <<"wikipedia", "python_repl", "duckduckgo", "calculator">>, FullTask)

BadIds == {AgentData(Range(RequiredFields) \ {"name"}, "n1", << >>, FullTask),
           AgentData(Range(RequiredFields), "n1", << >>, [FullTask EXCEPT !.keys = {}])}

NextIds ==
  \/ \E d \in {PersonaIds} \cup BadIds : CreateAgent(d, MaxIds)
  \/ \E d \in {PersonaIds} \cup BadIds : ImportAgent(d, MaxIds)
  \/ GetAgents
  \/ \E id \in IdInputs(MaxIds) : GetAgent(id)
  \/ \E id \in IdInputs(MaxIds) : ChatBegin(id, MsgAssign)
  \/ ChatSteps

SpecIds == Init /\ [][NextIds]_vars

\* concurrent creates against the one shared AgentManager
NextRace ==
  \/ \E t \in 1..NThreads, d \in {PersonaA, PersonaB} : BeginCreate(t, d, MaxAgents)
  \/ \E t \in 1..NThreads : StoreCreate(t)
  \/ \E id \in IdInputs(MaxAgents) : thr = AllIdle /\ GetAgent(id)

SpecRace == Init /\ [][NextRace]_vars

(* ============================== claims ================================ *)
KnownTools == {"wikipedia", "python_repl", "duckduckgo", "google_search"}

\* the messages of Messages that contain 'print', 'def' or '='
TriggerMessages == {MsgAssign, MsgResult, MsgEmptyResult, MsgDef, MsgPrint, MsgExit}

IsCompletion(e) == e.fn = "openai.ChatCompletion.create"

IsToolReturn(e) == e.fn \in {"wikipedia_search", "python_repl", "duckduckgo_search"}

CompletionCalls == SelectSeq(calls, IsCompletion)

ToolReturns == SelectSeq(calls, IsToolReturn)

\* a chat request that got past the lookup of its persona has ended
TurnOver ==
  /\ turn.pc = "idle"
  /\ last.op = "chat"
  /\ last.exc \in {"none", "Exception", "SystemExit"}

Declared == get_agent(agents, last.req.agent_id).tools

Attempted(i) ==
  /\ Declared[i] \in KnownTools
  /\ Declared[i] = "python_repl" => last.req.message \in TriggerMessages

AttemptedPositions == {i \in DOMAIN Declared : Attempted(i)}

RECURSIVE Ascending(_)
Ascending(S) ==
  IF S = {} THEN << >>
  ELSE LET m == CHOOSE x \in S : \A y \in S : x <= y
       IN  <<m>> \o Ascending(S \ {m})

ToolBlock == CompletionCalls[1].arg.user.tool_block

IsLabelledLine(line, tool) ==
  /\ Len(line) >= 2
  /\ line[1] = Capitalize(tool)
  /\ line[2] = ": "

\* C1: the tool-result block of the prompt handed to the completion
\* provider has exactly one labelled line per attempted tool (declared,
\* known and eligible), in declared order, whatever the tool returned.
C1_OneLinePerAttemptedTool ==
  (TurnOver /\ CompletionCalls # << >>) =>
     LET want == Ascending(AttemptedPositions)
     IN  /\ Len(ToolBlock) = Len(want)
         /\ \A k \in DOMAIN want :
               k <= Len(ToolBlock) => IsLabelledLine(ToolBlock[k], Declared[want[k]])

\* C2: the k-th successful create returned the decimal string of k:
\* identifiers start at "1", are pairwise distinct and are the keys of the
\* registry, whatever other operations ran in between.
C2_SequentialIdentifiers ==
  /\ \A k \in DOMAIN created : created[k] = Str(k)
  /\ Len(created) >= 1 => created[1] = <<"1">>
  /\ Len(created) >= 10 => created[10] = <<"1", "0">>
  /\ \A i, j \in DOMAIN created : i # j => created[i] # created[j]
  /\ DictKeys(agents) = Range(created)
  /\ \A k \in DOMAIN agents : agents[k].k = created[k] /\ agents[k].v.id = created[k]

C2_Witness ==
  /\ Len(created) >= 10
  /\ last.op = "chat"
  /\ last.status = 200
  /\ last.req.agent_id = <<"1", "0">>

\* the required fields of the claim that a persona specification lacks
AbsentTop(d) == Range(RequiredFields) \ d.keys

AbsentRequired(d) ==
  ((Range(RequiredFields) \ {"task"}) \ d.keys)
  \cup {IF g = "description" THEN "task.description" ELSE "task.expected_output" :
          g \in {f \in TaskKeys : "task" \notin d.keys \/ ~d.task.isdict \/ f \notin d.task.keys}}

NamedTop(msg) == Range(msg) \cap Range(RequiredFields)

\* the fields an error message names, "task" standing for both fields of
\* the task
NamedRequired(msg) ==
  (NamedTop(msg) \ {"task"})
  \cup (IF "task" \in NamedTop(msg) THEN {"task.description", "task.expected_output"} ELSE {})

CreateCalled == last.op \in {"create", "import"} /\ last.exc # "notcalled"

\* C3 as claimed: a create that lacks required fields fails with an error
\* that names exactly the lacking fields, task.description and
\* task.expected_output included.
C3_NamesExactlyMissing ==
  (CreateCalled /\ AbsentRequired(last.req) # {}) =>
     /\ last.status = 400
     /\ last.exc = "ValueError"
     /\ NamedRequired(last.body.error) = AbsentRequired(last.req)

IsTopField(f) == f \in Range(RequiredFields)

\* C3 amended: a create that lacks top-level keys fails with a ValueError
\* listing exactly the absent top-level keys, in the order name, role, goal,
\* backstory, tools, task; a create with all six keys whose task is not an
\* object or lacks description or expected_output fails with the ValueError
\* "Invalid task data format", which names no field.
C3_NamesMissingTopLevel ==
  (CreateCalled /\ AbsentRequired(last.req) # {}) =>
     /\ last.status = 400
     /\ last.exc = "ValueError"
     /\ IF AbsentTop(last.req) # {}
        THEN /\ last.body.error[1] = "Missing required fields: "
             /\ SelectSeq(last.body.error, IsTopField)
                  = SelectSeq(<<"name", "role", "goal", "backstory", "tools", "task">>,
                              LAMBDA f : f \in AbsentTop(last.req))
        ELSE last.body.error = <<"Invalid task data format">>

C3_Witness ==
  /\ CreateCalled
  /\ last.status = 400
  /\ AbsentTop(last.req) = {"name", "goal"}
  /\ last.req.task.isdict
  /\ last.req.task.keys = {"expected_output"}

\* C4: under every interleaving of concurrent creates the identifiers
\* returned are pairwise distinct and no create overwrote another's entry
\* (the registry holds one entry per returned persona).
C4_ConcurrentCreatesDistinct ==
  /\ \A i, j \in DOMAIN created : i # j => created[i] # created[j]
  /\ Len(agents) = Len(created)

ProviderFailed == CompletionCalls # << >> /\ CompletionCalls[1].out.kind # "ok"

\* C5: when the completion provider fails, the turn fails with the error
\* that carries the provider's message (a 500 of the chat endpoint), the
\* provider was called once only, and no step of the turn changed the
\* registry.
C5_CompletionFailure ==
  /\ [](ProviderFailed =>
          /\ TurnOver
          /\ last.status = 500
          /\ last.exc = "Exception"
          /\ last.body.error = <<"Error", " processing message: ", "Error",
                                 " getting AI response: ">> \o CompletionCalls[1].out.msg
          /\ Len(CompletionCalls) = 1)
  /\ [][(turn.pc = "tools" \/ turn'.pc = "tools" \/ last'.op = "chat")
          => (agents' = agents /\ created' = created)]_vars

C5_Witness ==
  /\ ProviderFailed
  /\ Len(agents) = 2
  /\ last.req.agent_id = <<"2">>
  /\ Len(calls) > 1

\* C6: a chat turn for an identifier that no create returned fails with
\* "Agent not found" (404 of the chat endpoint) with no tool and no provider
\* called, never gets past the lookup, and leaves the registry unchanged.
C6_UnknownIdNotFound ==
  /\ [](((last.op = "chat" /\ last.exc # "notcalled") \/ last.op = "pending")
          => IF last.req.agent_id \in Range(created)
             THEN last.status # 404
             ELSE /\ last.op = "chat"
                  /\ last.status = 404
                  /\ last.exc = "ValueError"
                  /\ last.body.error = <<"Agent not found">>
                  /\ calls = << >>
                  /\ turn.pc = "idle")
  /\ [][(last'.op = "chat" /\ last'.status = 404) => (agents' = agents /\ created' = created)]_vars

C6_Witness ==
  /\ last.op = "chat"
  /\ last.status = 404
  /\ last.req.agent_id = <<"0", "1">>
  /\ Len(agents) >= 1

\* C7: a turn for an existing persona never aborts while the tools run:
\* every declared tool that is known and eligible was invoked, in declared
\* order, and the completion provider was then called exactly once.
C7_TurnReachesCompletion ==
  TurnOver =>
     /\ Len(CompletionCalls) = 1
     /\ [k \in DOMAIN ToolReturns |-> ToolReturns[k].tool] = Ascending(AttemptedPositions)
     /\ IsCompletion(calls[Len(calls)])

IsExec(e) == e.fn = "exec"

\* C8: code-eval runs if and only if the persona declares it and the
\* message contains 'print', 'def' or '='; for a message with none of them
\* the block has no code-eval line, every other declared known tool was
\* still invoked and the completion provider was called.
C8_CodeEvalGate ==
  /\ SelectSeq(calls, IsExec) # << >> =>
        /\ last.req.message \in TriggerMessages
        /\ "python_repl" \in Range(Declared)
  /\ TurnOver =>
        /\ ("python_repl" \in Range(Declared) /\ last.req.message \in TriggerMessages)
              => SelectSeq(calls, IsExec) # << >>
        /\ last.req.message \notin TriggerMessages =>
              /\ Len(CompletionCalls) = 1
              /\ \A k \in DOMAIN ToolBlock : ToolBlock[k][1] # "Python_repl"
              /\ \A i \in DOMAIN Declared :
                    Declared[i] \in KnownTools \ {"python_repl"}
                       => \E k \in DOMAIN ToolReturns : ToolReturns[k].tool = i

C8_Witness ==
  /\ TurnOver
  /\ Declared = <<"python_repl", "duckduckgo">>
  /\ last.req.message = MsgNear
  /\ Len(ToolBlock) = 1

SummaryCallsOf(i) ==
  SelectSeq(calls, LAMBDA e : e.fn = "wikipedia.summary" /\ e.tool = i)

\* C9: when the first lookup is answered with a disambiguation, the tool
\* makes at most one further lookup (exactly one when an alternative is
\* suggested, for the first alternative), returns that lookup's summary or
\* the fixed "multiple matches" text, and raises nothing.
C9_DisambiguationRetry ==
  \A n \in DOMAIN calls :
     (calls[n].fn = "wikipedia_search"
        /\ SummaryCallsOf(calls[n].tool)[1].out.kind = "DisambiguationError") =>
       LET ps == SummaryCallsOf(calls[n].tool)
           got == calls[n].out
       IN  /\ got.kind = "ok"
           /\ Len(ps) <= 2
           /\ ps[1].out.options # << >> =>
                 /\ Len(ps) = 2
                 /\ ps[2].arg = [query |-> <<ps[1].out.options[1]>>, sentences |-> 2]
           /\ IF Len(ps) = 2 /\ ps[2].out.kind = "ok"
              THEN got.value = ps[2].out.value
              ELSE got.value = <<"Multiple matches found. Please be more specific.">>

C9_Witness ==
  \E n \in DOMAIN calls :
     /\ calls[n].fn = "wikipedia_search"
     /\ Len(SummaryCallsOf(calls[n].tool)) = 2
     /\ SummaryCallsOf(calls[n].tool)[2].out.kind = "Exception"
     /\ calls[n].out.value = <<"Multiple matches found. Please be more specific.">>

\* C10: get, list and a create that fails leave the registry as it was; a
\* successful create appends one entry under the decimal string of the
\* registry size plus one and leaves every stored persona as it was;
\* nothing else changes the registry.
C10_OnlyCreateChangesRegistry ==
  [][/\ last'.op \in {"get", "list", "export"} => agents' = agents
     /\ (last'.op \in {"create", "import"} /\ last'.status = 400) => agents' = agents
     /\ (last'.op \in {"create", "import"} /\ last'.status = 201) =>
           /\ Len(agents') = Len(agents) + 1
           /\ \A i \in DOMAIN agents : agents'[i] = agents[i]
           /\ agents'[Len(agents')].k = Str(Len(agents) + 1)
           /\ agents'[Len(agents')].k \notin DictKeys(agents)
           /\ to_dict(agents'[Len(agents')].v) = last'.body
           /\ last'.body.id = agents'[Len(agents')].k
           /\ last'.body.name = last'.req.name
           /\ last'.body.tools = last'.req.tools
     /\ agents' # agents => (last'.op \in {"create", "import"} /\ last'.status = 201)
    ]_vars

C10_Witness ==
  /\ last.op = "create"
  /\ last.status = 201
  /\ Len(agents) = 2
  /\ agents[1].v.name = "n2"
  /\ agents[2].v.name = "n1"

====
